---- MODULE Spec2Model ----
(***************************************************************************)
(* Model of filmaffinity_exporter.py: FilmaffinityExporter and main().     *)
(*                                                                         *)
(* Text is a sequence of one-character strings.  An optional markup        *)
(* element (the result of BeautifulSoup's find) is <<>> when find returns  *)
(* None and <<x>> when it returns an element with content x.               *)
(***************************************************************************)
EXTENDS Integers, Sequences, FiniteSets, TLC

\* ------------------------------------------------------------------ bounds
\* listing pages the profile can have non-empty
MaxPages == 2
\* rated movies the profile can have in all
MaxMovies == 2

\* ------------------------------------------------------------------- text
Whitespace == {" ", "\n"}

RECURSIVE LStrip(_)
LStrip(s) ==
  IF s # <<>> /\ Head(s) \in Whitespace THEN LStrip(Tail(s)) ELSE s

RECURSIVE RStrip(_)
RStrip(s) ==
  IF s # <<>> /\ s[Len(s)] \in Whitespace
  THEN RStrip(SubSeq(s, 1, Len(s) - 1))
  ELSE s

\* str.strip()
Strip(s) == RStrip(LStrip(s))

\* str.split(' ')[0]: the text before the first single space
RECURSIVE FirstToken(_)
FirstToken(s) ==
  IF s = <<>> \/ Head(s) = " " THEN <<>> ELSE <<Head(s)>> \o FirstToken(Tail(s))

\* ----------------------------------------------------------------- markup
None == <<>>
Some(x) == <<x>>
Option(S) == {None} \cup {Some(x) : x \in S}

\* A record node (div.user-ratings-movie-item), by the sub-nodes that
\* _extract_movie_data looks for:
\*   mcTitle   div.mc-title, holding the a.d-md-inline-block text if any
\*   mcYear    span.mc-year text
\*   avgBox    div.fa-avg-rat-box, holding the div.avg text if any
\*   userRat   div.fa-user-rat-box inside the record node itself
\*   director  div.mc-director text,   cast  div.mc-cast text
\*   lazyImg   img.lazyload, holding its data-srcset attribute if any
\*   nflag     img.nflag, holding its src attribute if any
MovieNode(t, y, a, u, d, c, p, f) ==
  [mcTitle |-> t, mcYear |-> y, avgBox |-> a, userRat |-> u,
   director |-> d, cast |-> c, lazyImg |-> p, nflag |-> f]

NoNode == MovieNode(None, None, None, None, None, None, None, None)

\* A child of a context node: a record node or a div.fa-user-rat-box
RatChild(txt) == [kind |-> "rat", text |-> txt, node |-> NoNode]
MovieChild(m) == [kind |-> "movie", text |-> <<>>, node |-> m]

\* parent_element.find('div', class_='fa-user-rat-box'): the first such div
\* among the descendants of the context node, in document order
RECURSIVE FindUserRatBox(_)
FindUserRatBox(children) ==
  IF children = <<>> THEN None
  ELSE LET c == Head(children) IN
       IF c.kind = "rat" THEN Some(c.text)
       ELSE IF c.node.userRat # None THEN c.node.userRat
       ELSE FindUserRatBox(Tail(children))

\* movie.find('div', class_='fa-user-rat-box'): the same search in the
\* record node alone
FindUserRatBoxInMovie(movie, parent) == movie.userRat

own_rating_elem(movie, parent) == FindUserRatBox(parent)

\* -------------------------------------------------------------- extraction
SiteRoot == <<"https://www.filmaffinity.com/">>

\* .find() on the None returned by a failed container lookup raises
\* AttributeError
ExtractRaises(movie) == movie.mcTitle = None \/ movie.avgBox = None

\* text.strip() of an element if it was found, the default otherwise
TextOr(elem, default) == IF elem # None THEN Strip(elem[1]) ELSE default

\* dict.get(key, ''): the attribute value, '' when the tag lacks it
AttrOr(attr) == IF attr # None THEN attr[1] ELSE <<>>

Unknown == <<"Unknown">>

\* The dict returned by _extract_movie_data; defined when not ExtractRaises
_extract_movie_data(movie, parent_element) ==
  LET title_elem == movie.mcTitle[1]
      rating_elem == movie.avgBox[1]
  IN [title |-> TextOr(title_elem, Unknown),
      year |-> TextOr(movie.mcYear, <<>>),
      rating |-> TextOr(rating_elem, <<>>),
      own_rating |-> TextOr(own_rating_elem(movie, parent_element), <<>>),
      director |-> TextOr(movie.director, <<>>),
      cast |-> TextOr(movie.cast, <<>>),
      poster_url |-> IF movie.lazyImg # None
                     THEN FirstToken(AttrOr(movie.lazyImg[1])) ELSE <<>>,
      flag_url |-> IF movie.nflag # None
                   THEN SiteRoot \o AttrOr(movie.nflag[1]) ELSE <<>>]

Fields ==
  {"title", "year", "rating", "own_rating", "director", "cast",
   "poster_url", "flag_url"}

\* ---------------------------------------------------------- the environment
\* self.headers, by header name
Headers == {"User-Agent", "Accept", "Accept-Language", "Connection"}

\* Markup the listing pages of a run are made of
TitleT == <<"T">>
PosterU == <<"u">>
FlagSrc == <<"/", "f">>

FullMovie ==
  MovieNode(Some(Some(<<" ">> \o TitleT)), Some(<<"1", "9">>), Some(Some(<<"7">>)),
            None, Some(<<"D">>), Some(<<"C">>),
            Some(Some(PosterU \o <<" ", "w">>)), Some(Some(FlagSrc)))
BareMovie ==
  MovieNode(Some(None), None, Some(None), None, None, None, None, None)
BrokenMovie ==
  MovieNode(None, Some(<<"1", "9">>), Some(Some(<<"7">>)), None, None, None,
            None, None)

\* context nodes: the parent element of a record node, as its children
RunParents ==
  {<<MovieChild(FullMovie), RatChild(<<"8", " ">>)>>,
   <<MovieChild(BareMovie)>>,
   <<RatChild(<<"6">>), MovieChild(BareMovie), MovieChild(FullMovie)>>,
   <<MovieChild(BrokenMovie), RatChild(<<"8">>)>>,
   <<RatChild(<<"8">>)>>}

\* parent elements one listing page can hold
MaxParents == 2

SeqsUpTo(S, n) == UNION {[1..k -> S] : k \in 0..n}

StatusCodes == {200, 203, 404}

\* soup.find_all('div', class_='user-ratings-movie-item') with movie.parent:
\* the record nodes of a page in document order, each with its parent
RECURSIVE MoviesOfParent(_, _)
MoviesOfParent(children, parent) ==
  IF children = <<>> THEN <<>>
  ELSE (IF Head(children).kind = "movie"
        THEN <<[movie |-> Head(children).node, parent |-> parent]>>
        ELSE <<>>) \o MoviesOfParent(Tail(children), parent)

RECURSIVE find_all(_)
find_all(body) ==
  IF body = <<>> THEN <<>>
  ELSE MoviesOfParent(Head(body), Head(body)) \o find_all(Tail(body))

\* What the site can answer to the request for page p when n records have
\* been collected: the profile has at most MaxPages pages with records and
\* MaxMovies records; the body of a non-200 answer is immaterial to the code
Responses(p, n) ==
  {r \in [status : StatusCodes, body : SeqsUpTo(RunParents, MaxParents)] :
     /\ Len(find_all(r.body)) <= MaxMovies - n
     /\ p > MaxPages => find_all(r.body) = <<>>
     /\ r.status # 200 => Len(r.body) <= 1}

\* What a GET of an asset can do: raise (connection error), or return a
\* response with a status and a body that decodes as an image or does not
NetworkError == [raised |-> TRUE, status |-> 0, image |-> FALSE]
NoFetch == [raised |-> FALSE, status |-> 0, image |-> FALSE]
AssetResponses ==
  {NetworkError} \cup
  [raised : {FALSE}, status : {200, 404}, image : BOOLEAN]

\* Image(BytesIO(data)) raises on a body that is not an image; requests.get
\* raises on a network error; both land in the except clause
LoadRaises(o) == o.raised \/ ~o.image

\* ------------------------------------------------------------------- state
VARIABLES
  pc,        \* where main() is
  page,      \* get_voted_movies: page
  movies,    \* self.movies
  fetched,   \* the listing responses received, in order
  i,         \* export_to_pdf: index of the next movie of the for loop
  elements,  \* export_to_pdf: elements
  assets,    \* per exported movie, what its poster and flag GET did
  printed,   \* the "Error loading ..." lines printed
  built,     \* the element lists handed to doc.build
  log,       \* outbound requests and doc.build calls, in order
  ex_movie,  \* _extract_movie_data called on its own: movie
  ex_parent, \* _extract_movie_data called on its own: parent_element
  ex_state,  \* "idle", "called", "returned" or "raised"
  ex_value   \* the dict returned

run_vars == <<pc, page, movies, fetched, i, elements, assets, printed, built, log>>
ex_vars == <<ex_movie, ex_parent, ex_state, ex_value>>
vars == <<run_vars, ex_vars>>

Init ==
  /\ pc = "get_voted_movies"
  /\ page = 1
  /\ movies = <<>>
  /\ fetched = <<>>
  /\ i = 1
  /\ elements = <<>>
  /\ assets = <<>>
  /\ printed = <<>>
  /\ built = <<>>
  /\ log = <<>>
  /\ ex_movie = NoNode
  /\ ex_parent = <<>>
  /\ ex_state = "idle"
  /\ ex_value = <<>>

\* ------------------------------------------------------- get_voted_movies
\* requests.get(url): no headers argument
ListingHeaders == {}

Get(op, p, url, hdrs) == [op |-> op, page |-> p, url |-> url, headers |-> hdrs]

\* for movie in movies_elements: extract and append; an exception raised by
\* _extract_movie_data leaves the loop and get_voted_movies
RECURSIVE ExtractLoopPrepend(_, _)
ExtractLoopPrepend(items, acc) ==
  IF items = <<>> THEN [movies |-> acc, raised |-> FALSE]
  ELSE IF ExtractRaises(Head(items).movie) THEN [movies |-> acc, raised |-> TRUE]
  ELSE ExtractLoopPrepend(Tail(items),
         <<_extract_movie_data(Head(items).movie, Head(items).parent)>> \o acc)

RECURSIVE ExtractLoop(_, _)
ExtractLoop(items, acc) ==
  IF items = <<>> THEN [movies |-> acc, raised |-> FALSE]
  ELSE IF ExtractRaises(Head(items).movie) THEN [movies |-> acc, raised |-> TRUE]
  ELSE ExtractLoop(Tail(items),
         Append(acc, _extract_movie_data(Head(items).movie, Head(items).parent)))

\* response.status_code != 200
StatusEnds(status) == status # 200

\* one iteration of the while loop
GetPage ==
  /\ pc = "get_voted_movies"
  /\ \E r \in Responses(page, Len(movies)) :
       LET movies_elements == find_all(r.body)
           res == ExtractLoop(movies_elements, movies)
       IN /\ log' = Append(log, Get("listing", page, <<>>, ListingHeaders))
          /\ fetched' = Append(fetched, r)
          /\ IF StatusEnds(r.status) \/ movies_elements = <<>>
             THEN /\ pc' = "export_to_pdf"
                  /\ UNCHANGED <<page, movies>>
             ELSE /\ movies' = res.movies
                  /\ pc' = IF res.raised THEN "raised_in_extract" ELSE pc
                  /\ page' = IF res.raised THEN page ELSE page + 1
  /\ UNCHANGED <<i, elements, assets, printed, built, ex_vars>>

\* ---------------------------------------------------------- export_to_pdf
\* reportlab flowables, by what the code passes to their constructors;
\* column widths are in tenths of an inch.  Constructing a flowable is taken
\* not to raise, except Image on a body that is not an image (LoadRaises)
Paragraph(text, style) == [kind |-> "Paragraph", text |-> text, style |-> style]
Image(url) == [kind |-> "Image", text |-> url, style |-> "image"]
Str(text) == [kind |-> "str", text |-> text, style |-> "str"]
Spacer == [kind |-> "Spacer", text |-> <<>>, style |-> "spacer"]
TitleTable(row) == [kind |-> "Table", row |-> row, colWidths |-> <<52, 3>>]
MovieTable(poster_cell, info_cell) ==
  [kind |-> "MovieTable", poster |-> poster_cell, info |-> info_cell,
   colWidths |-> <<10, 55>>]

\* _create_movie_separator
Separator == [kind |-> "Separator", poster |-> <<>>, info |-> <<>>,
              colWidths |-> <<65>>]

\* _create_movie_poster_cell: the cell, given what the GET did
PosterCellKeepFailed(movie, o) ==
  IF movie.poster_url # <<>> THEN <<Image(movie.poster_url)>> ELSE <<>>

PosterCell(movie, o) ==
  IF movie.poster_url # <<>> /\ ~LoadRaises(o)
  THEN <<Image(movie.poster_url)>>
  ELSE <<>>

\* _create_movie_title_table: the table, given what the GET did
TitleRow(movie, o) ==
  <<Paragraph(movie.title, "movie_title")>> \o
  (IF movie.flag_url # <<>>
   THEN (IF LoadRaises(o) THEN <<>> ELSE <<Image(movie.flag_url)>>)
   ELSE <<Str(<<>>)>>)

_create_movie_title_table(movie, o) == TitleTable(TitleRow(movie, o))

\* _create_movie_info_cell
_create_movie_info_cell(movie, title_table) ==
  <<title_table,
    Paragraph(<<"<b>">> \o movie.own_rating \o <<"</b>", " ", "(">>
              \o movie.rating \o <<")">>, "rating"),
    Spacer>>
  \o (IF movie.year # <<>>
      THEN <<Paragraph(<<"<b>Year:</b>", " ">> \o movie.year, "movie_info")>>
      ELSE <<>>)
  \o (IF movie.director # <<>>
      THEN <<Paragraph(<<"<b>Director:</b>", " ">> \o movie.director, "movie_info")>>
      ELSE <<>>)
  \o (IF movie.cast # <<>>
      THEN <<Paragraph(<<"<b>Cast:</b>", " ">> \o movie.cast, "movie_info")>>
      ELSE <<>>)

\* the Table appended to elements for one movie
Block(movie, po, fo) ==
  MovieTable(PosterCell(movie, po),
             _create_movie_info_cell(movie, _create_movie_title_table(movie, fo)))

\* elements.append(movie_table); elements.append(separator)
AppendBlockSkipFailed(elems, movie, po, fo) ==
  IF movie.poster_url # <<>> /\ LoadRaises(po)
  THEN elems
  ELSE elems \o <<Block(movie, po, fo), Separator>>

AppendBlock(elems, movie, po, fo) ==
  elems \o <<Block(movie, po, fo), Separator>>

\* the GETs of one movie, poster first
AssetGetsSameUrl(movie) ==
  (IF movie.poster_url # <<>>
   THEN <<Get("poster", 0, movie.poster_url, Headers)>> ELSE <<>>)
  \o (IF movie.flag_url # <<>>
      THEN <<Get("flag", 0, movie.poster_url, Headers)>> ELSE <<>>)

AssetGets(movie) ==
  (IF movie.poster_url # <<>>
   THEN <<Get("poster", 0, movie.poster_url, Headers)>> ELSE <<>>)
  \o (IF movie.flag_url # <<>>
      THEN <<Get("flag", 0, movie.flag_url, Headers)>> ELSE <<>>)

\* the except clauses' print calls of one movie
Diagnostics(movie, po, fo) ==
  (IF movie.poster_url # <<>> /\ LoadRaises(po)
   THEN <<[what |-> "poster", title |-> movie.title]>> ELSE <<>>)
  \o (IF movie.flag_url # <<>> /\ LoadRaises(fo)
      THEN <<[what |-> "flag", title |-> movie.title]>> ELSE <<>>)

\* what the GET of a declared URL can do; nothing is fetched for an empty one
OutcomesFor(url) == IF url # <<>> THEN AssetResponses ELSE {NoFetch}

\* one iteration of the for loop of export_to_pdf
ExportMovie ==
  /\ pc = "export_to_pdf"
  /\ i <= Len(movies)
  /\ LET movie == movies[i] IN
     \E po \in OutcomesFor(movie.poster_url), fo \in OutcomesFor(movie.flag_url) :
       /\ log' = log \o AssetGets(movie)
       /\ printed' = printed \o Diagnostics(movie, po, fo)
       /\ assets' = Append(assets, [poster |-> po, flag |-> fo])
       /\ elements' = AppendBlock(elements, movie, po, fo)
  /\ i' = i + 1
  /\ UNCHANGED <<pc, page, movies, fetched, built, ex_vars>>

\* the for loop of export_to_pdf has run over all of self.movies
LoopDoneEarly(k, ms) == TRUE
LoopDone(k, ms) == k > Len(ms)

\* doc.build(elements) after the loop, and the return to main; build can raise
Build ==
  /\ pc = "export_to_pdf"
  /\ LoopDone(i, movies)
  /\ built' = Append(built, elements)
  /\ log' = Append(log, Get("build", 0, <<>>, {}))
  /\ \E ok \in BOOLEAN : pc' = IF ok THEN "done" ELSE "raised_in_build"
  /\ UNCHANGED <<page, movies, fetched, i, elements, assets, printed, ex_vars>>

Next == GetPage \/ ExportMovie \/ Build

Spec == Init /\ [][Next]_vars

\* ------------------------------------- _extract_movie_data on its own
RatTexts == {<<>>, <<"8">>, <<" ", "8", "\n">>}

ExMovies ==
  {MovieNode(t, y, a, u, None, Some(<<"C", " ">>), p, f) :
     t \in {None, Some(None), Some(Some(<<" ", "T", " ">>))},
     y \in Option({<<"1", "9">>}),
     a \in {None, Some(None), Some(Some(<<"7">>))},
     u \in Option({<<"5">>}),
     p \in {None, Some(None), Some(Some(<<"u", " ", "w">>))},
     f \in {None, Some(None), Some(Some(FlagSrc))}}

\* parent_element arguments: a record node (the movie argument, or one that
\* differs from it in its own rating box) among optional rating boxes
ExParents(m) ==
  {(IF pre = None THEN <<>> ELSE <<RatChild(pre[1])>>)
     \o <<MovieChild([m EXCEPT !.userRat = u])>>
     \o (IF post = None THEN <<>> ELSE <<RatChild(post[1])>>) :
   pre \in Option(RatTexts), post \in Option(RatTexts),
   u \in Option({<<"5">>})}

InitExtract ==
  /\ pc = "_extract_movie_data"
  /\ page = 1
  /\ movies = <<>>
  /\ fetched = <<>>
  /\ i = 1
  /\ elements = <<>>
  /\ assets = <<>>
  /\ printed = <<>>
  /\ built = <<>>
  /\ log = <<>>
  /\ ex_movie \in ExMovies
  /\ ex_parent \in ExParents(ex_movie)
  /\ ex_state = "called"
  /\ ex_value = <<>>

\* the call returns the dict or raises
Extract ==
  /\ pc = "_extract_movie_data"
  /\ ex_state = "called"
  /\ IF ExtractRaises(ex_movie)
     THEN /\ ex_state' = "raised"
          /\ ex_value' = ex_value
     ELSE /\ ex_state' = "returned"
          /\ ex_value' = _extract_movie_data(ex_movie, ex_parent)
  /\ UNCHANGED <<run_vars, ex_movie, ex_parent>>

NextExtract == Extract

SpecExtract == InitExtract /\ [][NextExtract]_vars

\* ================================================================ claims
ListingGets == SelectSeq(log, LAMBDA e : e.op = "listing")
AssetGetsOf(l) == SelectSeq(l, LAMBDA e : e.op \in {"poster", "flag"})

\* the records of a listing body, in page order
RecordsOf(body) ==
  LET items == find_all(body) IN
  [j \in 1..Len(items) |-> _extract_movie_data(items[j].movie, items[j].parent)]

\* the records of the first n listing responses, concatenated
RECURSIVE RecordsOfPages(_)
RecordsOfPages(n) ==
  IF n = 0 THEN <<>> ELSE RecordsOfPages(n - 1) \o RecordsOf(fetched[n].body)

Successful(status) == status \in 200..299

\* C1: listing pages are requested one at a time in the order 1, 2, 3, ...;
\* when pages 1..k-1 were successful and non-empty and page k is the first
\* fetched page with no record nodes, self.movies is the records of pages
\* 1..k-1 in page order and in-page order, and page k is the last request.
C1_PaginationStopsAtFirstEmptyPage ==
  /\ Len(ListingGets) = Len(fetched)
  /\ \A j \in 1..Len(ListingGets) : ListingGets[j].page = j
  /\ \A k \in 1..Len(fetched) :
       (/\ find_all(fetched[k].body) = <<>>
        /\ \A j \in 1..(k - 1) :
             Successful(fetched[j].status) /\ find_all(fetched[j].body) # <<>>)
       => /\ movies = RecordsOfPages(k - 1)
          /\ Len(fetched) = k
          /\ pc # "get_voted_movies"

C1_Witness ==
  /\ Len(fetched) = 3
  /\ fetched[3].status = 200
  /\ find_all(fetched[3].body) = <<>>
  /\ Len(movies) = 2
  /\ movies[1] # movies[2]
  /\ pc = "done"

\* C2: a listing fetch ends pagination if and only if it is non-2xx or has
\* no record nodes: such a fetch ends pagination keeping the records so far
\* and the run goes on to the export; every 2xx response with record nodes
\* has its records appended and is followed by the request of the next page.
C2_EndsIffUnsuccessfulOrEmpty ==
  \A k \in 1..Len(fetched) :
    LET r == fetched[k] IN
    IF ~Successful(r.status) \/ find_all(r.body) = <<>>
    THEN /\ Len(fetched) = k
         /\ pc \in {"export_to_pdf", "done", "raised_in_build"}
    ELSE /\ pc # "raised_in_extract"
         /\ \/ Len(fetched) > k
            \/ pc = "get_voted_movies" /\ page = k + 1
         /\ Len(movies) >= Len(find_all(r.body))

\* C3: the element list handed to doc.build holds, for the j-th record of
\* self.movies, the record's block at position 2j-1 and a separator at
\* position 2j, and nothing else, whatever the asset fetches did.
BlockOfRecord(b, m) ==
  /\ b.kind = "MovieTable"
  /\ b.info[1].kind = "Table"
  /\ b.info[1].row[1] = Paragraph(m.title, "movie_title")
  /\ b.info[2].text = <<"<b>">> \o m.own_rating \o <<"</b>", " ", "(">>
                      \o m.rating \o <<")">>

C3_OneBlockPerRecord ==
  /\ Len(elements) = 2 * (i - 1)
  /\ \A n \in 1..Len(built) :
       /\ Len(built[n]) = 2 * Len(movies)
       /\ \A j \in 1..Len(movies) :
            /\ BlockOfRecord(built[n][2 * j - 1], movies[j])
            /\ built[n][2 * j].kind = "Separator"

Declared(url) == url # <<>>
FetchFailed(o) == o.raised \/ ~o.image

C3_Witness ==
  /\ pc = "done"
  /\ Len(built) = 1
  /\ Len(movies) = 2
  /\ Declared(movies[1].poster_url) /\ FetchFailed(assets[1].poster)
  /\ ~Declared(movies[2].poster_url)

\* C4: _extract_movie_data never raises for a missing sub-node, the title
\* container and the community-rating container included: it returns a dict
\* with all eight fields, "Unknown" for a missing title and empty text for
\* every other missing field.
C4_ExtractionNeverRaises ==
  /\ ex_state # "raised"
  /\ ex_state = "returned" =>
       /\ DOMAIN ex_value = Fields
       /\ (ex_movie.mcTitle \in {None, Some(None)}) => ex_value.title = Unknown
       /\ (ex_movie.avgBox \in {None, Some(None)}) => ex_value.rating = <<>>
       /\ ex_movie.mcYear = None => ex_value.year = <<>>
       /\ ex_movie.lazyImg = None => ex_value.poster_url = <<>>
       /\ ex_movie.nflag = None => ex_value.flag_url = <<>>

\* the j-th record's block, while and after export_to_pdf runs
BlockAt(j) == elements[2 * j - 1]
TitleRowAt(j) == BlockAt(j).info[1].row
HasImage(row) == \E c \in 1..Len(row) : row[c].kind = "Image"
PosterFailures(F(_)) ==
  {j \in 1..Len(assets) : Declared(movies[j].poster_url) /\ F(assets[j].poster)}
FlagFailures(F(_)) ==
  {j \in 1..Len(assets) : Declared(movies[j].flag_url) /\ F(assets[j].flag)}
Printed(what, title) ==
  \E k \in 1..Len(printed) : printed[k] = [what |-> what, title |-> title]

\* the failure leaves the record with no image for the field and a printed
\* diagnostic naming the record
Isolated(F(_)) ==
  /\ \A j \in PosterFailures(F) :
       BlockAt(j).poster = <<>> /\ Printed("poster", movies[j].title)
  /\ \A j \in FlagFailures(F) :
       ~HasImage(TitleRowAt(j)) /\ Printed("flag", movies[j].title)

\* C5 as stated: a poster or flag fetch that hits a network error, a non-2xx
\* response or a corrupt body leaves the record's block without that image
\* and prints a diagnostic naming the record title.
ClaimedFailure(o) == o.raised \/ ~Successful(o.status) \/ ~o.image

C5_Original_FailureIncludesNon2xx == Isolated(ClaimedFailure)

NonEmptyFields(m) ==
  Cardinality({f \in {"year", "director", "cast"} : m[f] # <<>>})

\* C5 amended: a poster or flag fetch that raises, or whose body (whatever
\* the status) does not decode as an image, is isolated to that field of that
\* record: the loop goes on, one diagnostic naming the title is printed per
\* failure, the block has no poster (no flag image), the title, the rating
\* line and the non-empty metadata lines of the record are rendered, and
\* the block of a record depends on that record and its own fetches only.
C5_AssetFailureIsolated ==
  /\ Len(assets) = i - 1
  /\ Len(elements) = 2 * (i - 1)
  /\ assets # <<>> => pc \in {"export_to_pdf", "done", "raised_in_build"}
  /\ Isolated(FetchFailed)
  /\ Len(printed) = Cardinality(PosterFailures(FetchFailed))
                    + Cardinality(FlagFailures(FetchFailed))
  /\ \A j \in 1..Len(assets) :
       /\ (Declared(movies[j].poster_url) /\ ~FetchFailed(assets[j].poster))
            => BlockAt(j).poster = <<Image(movies[j].poster_url)>>
       /\ (Declared(movies[j].flag_url) /\ ~FetchFailed(assets[j].flag))
            => HasImage(TitleRowAt(j))
       /\ BlockOfRecord(BlockAt(j), movies[j])
       /\ Len(BlockAt(j).info) = 3 + NonEmptyFields(movies[j])
       /\ \A k \in 1..Len(assets) :
            (movies[j] = movies[k] /\ assets[j] = assets[k])
              => BlockAt(j) = BlockAt(k)

C5_Witness ==
  /\ pc = "done"
  /\ Len(movies) = 2
  /\ Declared(movies[1].poster_url) /\ Declared(movies[2].poster_url)
  /\ assets[1].poster = [raised |-> FALSE, status |-> 404, image |-> FALSE]
  /\ ~FetchFailed(assets[2].poster)
  /\ BlockAt(1).poster = <<>>
  /\ BlockAt(2).poster # <<>>
  /\ Printed("poster", movies[1].title)

\* number of GETs of url u in the log
GetsOf(u) ==
  Cardinality({k \in 1..Len(log) : log[k].op \in {"poster", "flag"} /\ log[k].url = u})
\* number of poster and flag references to u in the records exported so far
ReferencesTo(u) ==
  Cardinality({j \in 1..(i - 1) : movies[j].poster_url = u})
  + Cardinality({j \in 1..(i - 1) : movies[j].flag_url = u})
RunUrls ==
  {log[k].url : k \in 1..Len(log)}
  \cup {movies[j].poster_url : j \in 1..Len(movies)}
  \cup {movies[j].flag_url : j \in 1..Len(movies)}

\* C6 as stated: over one export, every asset URL is fetched 0 times or once.
C6_Original_AtMostOneGetPerUrl ==
  \A u \in RunUrls \ {<<>>} : GetsOf(u) <= 1

\* C6 amended: over one export, every non-empty poster or flag reference of
\* every record is fetched exactly once, with no sharing between records:
\* the number of GETs of a URL is the number of record fields that declare
\* it (0 or 1 only when no two fields declare the same URL).
C6_OneGetPerReference ==
  /\ \A u \in RunUrls \ {<<>>} : GetsOf(u) = ReferencesTo(u)
  /\ GetsOf(<<>>) = 0

C6_Witness ==
  /\ pc = "done"
  /\ Len(movies) = 2
  /\ Declared(movies[1].poster_url)
  /\ movies[1].poster_url = movies[2].poster_url
  /\ GetsOf(movies[1].poster_url) = 2

\* C7: every outbound request, to a listing page as to a poster or flag URL,
\* carries the header set self.headers.
C7_EveryRequestCarriesHeaders ==
  \A k \in 1..Len(log) : log[k].op # "build" => log[k].headers = Headers

\* C8: doc.build is called at most once, only after the loop has composed a
\* block and a separator for every record and attempted every asset fetch;
\* every listing request precedes every asset request and the build; a run
\* that raised before the build has built nothing; a completed run has built
\* exactly once.
C8_FinalizedOnceAtEnd ==
  /\ Len(built) <= 1
  /\ Len(built) = Cardinality({k \in 1..Len(log) : log[k].op = "build"})
  /\ built # <<>> =>
       /\ i = Len(movies) + 1
       /\ Len(assets) = Len(movies)
       /\ built[1] = elements
       /\ Len(elements) = 2 * Len(movies)
       /\ log[Len(log)].op = "build"
       /\ Len(AssetGetsOf(log)) =
            Cardinality({j \in 1..Len(movies) : Declared(movies[j].poster_url)})
            + Cardinality({j \in 1..Len(movies) : Declared(movies[j].flag_url)})
  /\ \A a, b \in 1..Len(log) :
       (a < b /\ log[b].op = "listing") => log[a].op = "listing"
  /\ pc = "raised_in_extract" => built = <<>>
  /\ pc = "get_voted_movies" => built = <<>> /\ AssetGetsOf(log) = <<>>
  /\ pc = "done" => Len(built) = 1

C8_Witness ==
  /\ pc = "done"
  /\ Len(fetched) = 3
  /\ Len(movies) = 2
  /\ Len(AssetGetsOf(log)) >= 2
  /\ log[Len(log)].op = "build"

\* all div.fa-user-rat-box texts under the context node, in document order
RECURSIVE DocOrderRatBoxes(_)
DocOrderRatBoxes(children) ==
  IF children = <<>> THEN <<>>
  ELSE (IF Head(children).kind = "rat"
        THEN <<Head(children).text>>
        ELSE Head(children).node.userRat) \o DocOrderRatBoxes(Tail(children))

NoEdgeWhitespace(t) ==
  t = <<>> \/ (t[1] \notin Whitespace /\ t[Len(t)] \notin Whitespace)

\* C9: the personal rating is read from the context node passed as
\* parent_element, not from the movie argument: it is the trimmed text of
\* the first personal-rating node of the context node, whatever the movie
\* argument holds, and empty text when the context node holds none.
C9_OwnRatingFromContext ==
  ex_state = "returned" =>
    LET boxes == DocOrderRatBoxes(ex_parent) IN
    /\ boxes = <<>> => ex_value.own_rating = <<>>
    /\ boxes # <<>> =>
         /\ NoEdgeWhitespace(ex_value.own_rating)
         /\ \E a, b \in 0..Len(boxes[1]) :
              /\ a + b + Len(ex_value.own_rating) = Len(boxes[1])
              /\ ex_value.own_rating = SubSeq(boxes[1], a + 1, Len(boxes[1]) - b)
              /\ \A k \in (1..a) \cup ((Len(boxes[1]) - b + 1)..Len(boxes[1])) :
                   boxes[1][k] \in Whitespace

C9_Witness ==
  /\ ex_state = "returned"
  /\ ex_movie.userRat = None
  /\ ex_parent[1].kind = "rat"
  /\ ex_parent[1].text = <<" ", "8", "\n">>
  /\ ex_parent[2].node.userRat = Some(<<"5">>)
  /\ ex_value.own_rating = <<"8">>

\* C10: the title row of every block has two cells, as many as its two
\* column widths: the title paragraph, then the flag image or an empty
\* placeholder, whether no flag is declared, the flag was fetched or the
\* fetch failed.
C10_TitleRowHasTwoCells ==
  \A j \in 1..Len(assets) :
    LET t == BlockAt(j).info[1] IN
    /\ Len(t.row) = 2
    /\ Len(t.row) = Len(t.colWidths)
    /\ t.row[1] = Paragraph(movies[j].title, "movie_title")
    /\ t.row[2].kind \in {"Image", "str"}

====
